---- MODULE Spec2Model ----
(***************************************************************************)
(* ldaudit: the command layer (src/ld_audit/cli.py) over the cache store,  *)
(* the API client, the flag classification service and the codebase        *)
(* scanner.  One command invocation is one action; what it did, in order,  *)
(* is recorded in `trace`.  The on-disk cache is the only state that one   *)
(* invocation hands to the next.                                           *)
(*                                                                         *)
(* Time is counted in ticks; a cache TTL and a day are both numbers of     *)
(* ticks.  Python's None is the empty set and a present value v is {v}.    *)
(* A string the program splits or searches is a sequence of one-character  *)
(* strings; a string it only compares is a TLA+ string.                    *)
(***************************************************************************)
EXTENDS Integers, Sequences, FiniteSets, TLC

VARIABLES
    now,          \* the clock (time.time(), datetime.now())
    cache_dir,    \* TRUE iff the per-user cache directory exists
    files,        \* project -> None | Some(content of <project>.json)
    inv,          \* the arguments of the invocation that just ran, or NoInv
    trace,        \* what that invocation did, in order
    exit_code,    \* its exit code
    stored        \* history: project -> the payload the last successful
                  \* cache-enabled fetch of that project wrote (None after
                  \* the entry was cleared or damaged from outside)

vars == <<now, cache_dir, files, inv, trace, exit_code, stored>>

(***************************************************************************)
(* Bounds of the model.                                                    *)
(***************************************************************************)
Epoch == 100          \* the clock reading the model starts at
MaxTicks == 2         \* the clock advances at most this far
MaxTTL == 2           \* --cache-ttl ranges over 1..MaxTTL
TicksPerDay == 1      \* the scale of a day against the clock

Projects == {"p", "q"}

None == {}
Some(v) == {v}
The(o) == CHOOSE v \in o : TRUE

Ev(name) == [ev |-> name]

(***************************************************************************)
(* Python's str.strip and str.split, as cli.py line 43 uses them.          *)
(***************************************************************************)
IsSpace(c) == c = " "

RECURSIVE lstrip(_)
lstrip(s) == IF s # <<>> /\ IsSpace(Head(s)) THEN lstrip(Tail(s)) ELSE s

RECURSIVE rstrip(_)
rstrip(s) ==
    IF s # <<>> /\ IsSpace(s[Len(s)]) THEN rstrip(SubSeq(s, 1, Len(s) - 1)) ELSE s

strip(s) == rstrip(lstrip(s))

RECURSIVE split(_, _)
split(s, sep) ==
    IF \E i \in 1..Len(s) : s[i] = sep
    THEN LET i == CHOOSE j \in 1..Len(s) :
                      s[j] = sep /\ \A k \in 1..(j - 1) : s[k] # sep
         IN  <<SubSeq(s, 1, i - 1)>> \o split(SubSeq(s, i + 1, Len(s)), sep)
    ELSE <<s>>

\* [v.strip() for v in value.split(",") if v.strip()]
RECURSIVE stripped_tokens(_)
stripped_tokens(parts) ==
    IF parts = <<>> THEN <<>>
    ELSE (IF strip(Head(parts)) # <<>> THEN <<strip(Head(parts))>> ELSE <<>>)
         \o stripped_tokens(Tail(parts))

RECURSIVE extend_all(_)
extend_all(values) ==
    IF values = <<>> THEN <<>>
    ELSE stripped_tokens(split(Head(values), ",")) \o extend_all(Tail(values))

\* the empty result returned as it is, not turned into None
parse_comma_separated_keeps_empty(values) ==
    IF values = None \/ The(values) = <<>> THEN None
    ELSE Some(extend_all(The(values)))

\* values: None | Some(sequence of strings); result: None | Some(non-empty list)
parse_comma_separated(values) ==
    IF values = None \/ The(values) = <<>> THEN None
    ELSE LET result == extend_all(The(values))
         IN  IF result # <<>> THEN Some(result) ELSE None

(***************************************************************************)
(* The data model.  A raw item is what the remote listing returns and what *)
(* the cache stores; a Flag is what the commands work on.                  *)
(***************************************************************************)
MsPerTick == 1000

Item(key, temporary, maintainer, created, envs) ==
    [key |-> key, temporary |-> temporary, _maintainer |-> maintainer,
     creationDate |-> created * MsPerTick, environments |-> envs]

\* one environment of a raw item: lastModified is None or Some(milliseconds)
Env(name, modified) ==
    [env |-> name,
     lastModified |-> IF modified = None THEN None
                      ELSE Some(The(modified) * MsPerTick)]

EnvironmentStatus(e) ==
    [environment_key |-> e.env,
     last_modified |-> IF e.lastModified = None THEN None
                       ELSE Some(The(e.lastModified) \div MsPerTick)]

\* Flag.from_dict
Flag(item) ==
    [key |-> item.key,
     temporary |-> item.temporary,
     maintainer |-> IF item._maintainer = None THEN None
                    ELSE Some([first_name |-> The(item._maintainer)]),
     creation_date |-> item.creationDate \div MsPerTick,
     environments |-> [i \in 1..Len(item.environments) |->
                          EnvironmentStatus(item.environments[i])]]

Flags(items) == [i \in 1..Len(items) |-> Flag(items[i])]

(***************************************************************************)
(* Flag classification service.                                            *)
(***************************************************************************)
DaysPerMonth == 30

InList(x, list) == \E i \in 1..Len(list) : list[i] = x

passes_maintainer(flag, maintainer_names) ==
    \/ maintainer_names = None
    \/ /\ flag.maintainer # None
       /\ InList(The(flag.maintainer).first_name, The(maintainer_names))

passes_exclude(flag, exclude_keys) ==
    exclude_keys = None \/ ~InList(flag.key, The(exclude_keys))

apply_common_filters(flags, maintainer_names, exclude_keys) ==
    LET Keep(f) == passes_maintainer(f, maintainer_names)
                   /\ passes_exclude(f, exclude_keys)
    IN  SelectSeq(flags, Keep)

\* the environments' last_modified values that are present
modifications(flag) ==
    {The(flag.environments[i].last_modified) :
        i \in {j \in 1..Len(flag.environments) :
                  flag.environments[j].last_modified # None}}

Max(S) == CHOOSE m \in S : \A n \in S : n <= m

last_activity(flag) ==
    IF modifications(flag) = {} THEN flag.creation_date
    ELSE Max(modifications(flag))

is_inactive(flag, months, clock) ==
    /\ flag.temporary
    /\ last_activity(flag) < clock - months * DaysPerMonth * TicksPerDay

get_inactive_flags(flags, months, maintainer_names, exclude_keys, clock) ==
    LET Keep(f) == is_inactive(f, months, clock)
    IN  SelectSeq(apply_common_filters(flags, maintainer_names, exclude_keys), Keep)

(***************************************************************************)
(* Cache store: one file per project under the cache directory.            *)
(***************************************************************************)
CacheEntry(timestamp, payload) ==
    [kind |-> "object", timestamp |-> timestamp, data |-> payload]

\* a file that does not hold a cache entry
Damaged(kind) == [kind |-> kind, timestamp |-> 0, data |-> <<>>]

cache_get(dir, fs, project, clock, ttl_seconds) ==
    IF ~dir \/ fs[project] = None THEN None
    ELSE LET cached == The(fs[project])
         IN  IF cached.kind # "object" THEN None
             ELSE IF clock - cached.timestamp < ttl_seconds
                  THEN Some(cached.data)
                  ELSE None

cache_set(fs, project, payload, clock) ==
    [fs EXCEPT ![project] = Some(CacheEntry(clock, payload))]

clear_all(fs) == [p \in Projects |-> None]

(***************************************************************************)
(* API client.  A response of the remote service is its pages, the page    *)
(* whose request fails (0: none) and the status the failure carries (None: *)
(* a network failure).                                                     *)
(***************************************************************************)
Response(pages, fail_at, status) ==
    [pages |-> pages, fail_at |-> fail_at, status |-> status]

RECURSIVE fetch_pages(_, _, _, _)
fetch_pages(response, page, items, requests) ==
    IF page > Len(response.pages)
    THEN [ok |-> TRUE, items |-> items, status |-> None, trace |-> requests]
    ELSE LET sent == requests \o <<[ev |-> "http_get", page |-> page]>>
         IN  IF response.fail_at = page
             THEN [ok |-> FALSE, items |-> <<>>, status |-> response.status,
                   trace |-> sent]
             ELSE fetch_pages(response, page + 1,
                              items \o response.pages[page], sent)

fetch_all_flags(response) == fetch_pages(response, 1, <<>>, <<>>)

\* The result: ok, the flags or the error's status, the cache afterwards,
\* the payload written to the cache (None: nothing written), what was done.
get_all_flags(project, enable_cache, force_refresh, ttl_seconds, response, clock, dir, fs) ==
    LET call == <<[ev |-> "get_all_flags", project |-> project,
                   enable_cache |-> enable_cache,
                   force_refresh |-> force_refresh]>>
        read == ~force_refresh /\ enable_cache
        cached == IF read THEN cache_get(dir, fs, project, clock, ttl_seconds)
                  ELSE None
        looked == IF read
                  THEN <<[ev |-> "cache_get", project |-> project,
                          hit |-> cached # None]>>
                  ELSE <<>>
        fetched == fetch_all_flags(response)
    IN  IF cached # None
        THEN [ok |-> TRUE, flags |-> Flags(The(cached)), status |-> None,
              cache_dir |-> dir, files |-> fs, written |-> None,
              trace |-> call \o looked]
        ELSE IF ~fetched.ok
        THEN [ok |-> FALSE, flags |-> <<>>, status |-> fetched.status,
              cache_dir |-> dir, files |-> fs, written |-> None,
              trace |-> call \o looked \o fetched.trace
                        \o <<Ev("LaunchDarklyAPIError")>>]
        ELSE IF enable_cache
        THEN [ok |-> TRUE, flags |-> Flags(fetched.items), status |-> None,
              cache_dir |-> TRUE,
              files |-> cache_set(fs, project, fetched.items, clock),
              written |-> Some(fetched.items),
              trace |-> call \o looked \o fetched.trace
                        \o <<[ev |-> "cache_set", project |-> project]>>]
        ELSE [ok |-> TRUE, flags |-> Flags(fetched.items), status |-> None,
              cache_dir |-> dir, files |-> fs, written |-> None,
              trace |-> call \o looked \o fetched.trace]

(***************************************************************************)
(* Codebase scanner.  A directory is its files in traversal order.         *)
(***************************************************************************)
File(path, ext, size_mb, text, lines) ==
    [path |-> path, ext |-> ext, size_mb |-> size_mb, text |-> text,
     lines |-> lines]

FileSystem ==
    [repo |->
        <<File("a.py", <<"p", "y">>, 0, TRUE,
               << <<"x">>, <<"y">>, <<"g", "e", "t", "(", "f", ")">> >>),
          File("b.txt", <<"t", "x", "t">>, 0, TRUE, << <<"n", "o">> >>),
          File("big.py", <<"p", "y">>, 9, TRUE, << <<"h">> >>),
          File("c.PY", <<"P", "Y">>, 0, TRUE, << <<"f">>, <<"f", "f">> >>)>>,
     legacy |->
        <<File("old.py", <<"p", "y">>, 0, TRUE, << <<"f", "g">>, <<"h">> >>),
          File("blob.bin", <<"b">>, 0, FALSE, << <<"f">> >>)>>,
     clean |->
        <<File("README", <<>>, 0, TRUE, << <<"n", "o">> >>)>>]

isdir(directory) == directory \in DOMAIN FileSystem

lower(c) == CASE c = "P" -> "p" [] c = "Y" -> "y" [] OTHER -> c

lowercase(s) == [i \in 1..Len(s) |-> lower(s[i])]

\* key in line
Contains(line, key) ==
    \E i \in 0..(Len(line) - Len(key)) : SubSeq(line, i + 1, i + Len(key)) = key

eligible(file, extensions, max_file_size_mb) ==
    /\ file.size_mb <= max_file_size_mb
    /\ file.text
    /\ \/ extensions = None
       \/ InList(lowercase(file.ext), The(extensions))

RECURSIVE matching_lines(_, _, _)
matching_lines(file, key, n) ==
    IF n > Len(file.lines) THEN <<>>
    ELSE (IF Contains(file.lines[n], key)
          THEN <<[file_path |-> file.path, line_number |-> n]>>
          ELSE <<>>)
         \o matching_lines(file, key, n + 1)

RECURSIVE locations(_, _, _, _)
locations(tree, key, extensions, max_file_size_mb) ==
    IF tree = <<>> THEN <<>>
    ELSE (IF eligible(Head(tree), extensions, max_file_size_mb)
          THEN matching_lines(Head(tree), key, 1)
          ELSE <<>>)
         \o locations(Tail(tree), key, extensions, max_file_size_mb)

\* the mapping flag key -> locations, over the keys with at least one match
search_directory(root, flag_keys, extensions, max_file_size_mb) ==
    LET found(k) == locations(FileSystem[root], k, extensions, max_file_size_mb)
        keys == {flag_keys[i] : i \in 1..Len(flag_keys)}
    IN  [k \in {x \in keys : found(x) # <<>>} |-> found(k)]

(***************************************************************************)
(* The commands.  Each returns what the invocation did (trace), its exit   *)
(* code, the cache it leaves and the payload it wrote to the cache.        *)
(***************************************************************************)
console_print(text) == [ev |-> "print", text |-> text]

Unhandled(type) == [ev |-> "unhandled_exception", type |-> type]

Done(t, code, dir, fs, written) ==
    [trace |-> t, exit_code |-> code, cache_dir |-> dir, files |-> fs,
     written |-> written]

\* `not api_key`: None and the empty string are both falsy
falsy(s) == s = None \/ s = Some("")

\* handle_api_error without its final raise
handle_api_error_returns(status) ==
    [trace |-> <<[ev |-> "handle_api_error", status_code |-> status],
                 console_print("Error: message")>>,
     exit_code |-> None]

\* the API-key hint printed for every error that carries a status
handle_api_error_hint_any_status(status) ==
    [trace |-> <<[ev |-> "handle_api_error", status_code |-> status],
                 console_print("Error: message")>>
               \o (IF status # None THEN <<console_print("Check your LD_API_KEY")>>
                   ELSE <<>>),
     exit_code |-> Some(1)]

\* raises typer.Exit(code=1): exit_code None would be a normal return
handle_api_error(status) ==
    [trace |-> <<[ev |-> "handle_api_error", status_code |-> status],
                 console_print("Error: message")>>
               \o (IF status = Some(401) THEN <<console_print("Check your LD_API_KEY")>>
                   ELSE IF status = Some(404)
                        THEN <<console_print("Verify the project name")>>
                        ELSE <<>>),
     exit_code |-> Some(1)]

\* the error caught and dropped: the command ends as if nothing was wrong
Caught_swallowed(t, got) ==
    Done(t \o <<Ev("handle_api_error")>>, 0, got.cache_dir, got.files, got.written)

\* except LaunchDarklyAPIError as e: handle_api_error(e); were it to return,
\* the next statement would read the unbound local `flags`
Caught(t, got) ==
    LET handled == handle_api_error(got.status)
    IN  IF handled.exit_code # None
        THEN Done(t \o handled.trace, The(handled.exit_code),
                  got.cache_dir, got.files, got.written)
        ELSE Done(t \o handled.trace \o <<Unhandled("UnboundLocalError")>>, 1,
                  got.cache_dir, got.files, got.written)

CredentialError(t, dir, fs) ==
    Done(t \o <<console_print("LD_API_KEY not found"), console_print("Set it in your .env")>>,
         1, dir, fs, None)

Client(args) ==
    <<[ev |-> "SimpleCache", ttl_seconds |-> args.cache_ttl],
      Ev("LaunchDarklyClient")>>

(* ------------------------------ list ---------------------------------- *)
\* `if api_key is None` in place of `if not api_key`
list_key_is_none(args) == args.api_key = None

list_key_missing(args) == falsy(args.api_key)

\* enable_cache=no_cache in place of enable_cache=not no_cache
list_get_all_flags_not_negated(args, response, clock, dir, fs) ==
    get_all_flags(args.project, args.no_cache, args.override_cache, args.cache_ttl, response, clock, dir, fs)

list_get_all_flags(args, response, clock, dir, fs) ==
    get_all_flags(args.project, ~args.no_cache, args.override_cache, args.cache_ttl, response, clock, dir, fs)

list_render(args, got, maintainer_list, exclude_list, t) ==
    LET filtered_flags ==
            apply_common_filters(got.flags, maintainer_list, exclude_list)
        permanent(f) == ~f.temporary
        temporary(f) == f.temporary
        filtered == t \o <<[ev |-> "apply_common_filters", flags |-> got.flags,
                            result |-> filtered_flags]>>
    IN  IF filtered_flags = <<>>
        THEN Done(filtered \o <<console_print("No flags found")>>, 0,
                  got.cache_dir, got.files, got.written)
        ELSE Done(filtered
                  \o <<[ev |-> "print_summary",
                        total_live |-> Len(filtered_flags),
                        permanent |-> Len(SelectSeq(filtered_flags, permanent)),
                        temporary |-> Len(SelectSeq(filtered_flags, temporary))],
                       [ev |-> "create_flags_table", flags |-> filtered_flags],
                       console_print("table")>>,
                  0, got.cache_dir, got.files, got.written)

list_flags(args, response, clock, dir, fs) ==
    IF list_key_missing(args)
    THEN CredentialError(<<Ev("get_api_key")>>, dir, fs)
    ELSE LET maintainer_list == parse_comma_separated(args.maintainer)
             exclude_list == parse_comma_separated(args.exclude)
             got == list_get_all_flags(args, response, clock, dir, fs)
             t == <<Ev("get_api_key")>> \o Client(args) \o got.trace
         IN  IF ~got.ok THEN Caught(t, got)
             ELSE list_render(args, got, maintainer_list, exclude_list, t)

(* ---------------------------- inactive -------------------------------- *)
inactive_key_missing(args) == falsy(args.api_key)

\* force_refresh always on
inactive_get_all_flags_forced(args, response, clock, dir, fs) ==
    get_all_flags(args.project, ~args.no_cache, TRUE, args.cache_ttl, response, clock, dir, fs)

inactive_get_all_flags(args, response, clock, dir, fs) ==
    get_all_flags(args.project, ~args.no_cache, args.override_cache, args.cache_ttl, response, clock, dir, fs)

\* the two filter lists passed in each other's place
inactive_classify_swapped(args, flags, maintainer_list, exclude_list, clock) ==
    get_inactive_flags(flags, args.months, exclude_list, maintainer_list, clock)

inactive_classify(args, flags, maintainer_list, exclude_list, clock) ==
    get_inactive_flags(flags, args.months, maintainer_list, exclude_list, clock)

inactive_render(args, got, maintainer_list, exclude_list, clock, t) ==
    LET inactive_flags ==
            inactive_classify(args, got.flags, maintainer_list, exclude_list, clock)
        classified == t \o <<[ev |-> "get_inactive_flags", flags |-> got.flags,
                              result |-> inactive_flags]>>
    IN  IF inactive_flags = <<>>
        THEN Done(classified \o <<console_print("No inactive flags found")>>, 0,
                  got.cache_dir, got.files, got.written)
        ELSE Done(classified
                  \o <<[ev |-> "print_total", total |-> Len(inactive_flags)],
                       [ev |-> "create_flags_table", flags |-> inactive_flags],
                       console_print("table")>>,
                  0, got.cache_dir, got.files, got.written)

inactive(args, response, clock, dir, fs) ==
    IF inactive_key_missing(args)
    THEN CredentialError(<<Ev("get_api_key")>>, dir, fs)
    ELSE LET maintainer_list == parse_comma_separated(args.maintainer)
             exclude_list == parse_comma_separated(args.exclude)
             got == inactive_get_all_flags(args, response, clock, dir, fs)
             t == <<Ev("get_api_key")>> \o Client(args) \o got.trace
         IN  IF ~got.ok THEN Caught(t, got)
             ELSE inactive_render(args, got, maintainer_list, exclude_list,
                                  clock, t)

(* ------------------------------ scan ---------------------------------- *)
scan_dir_invalid(args) == ~isdir(args.directory)

scan_key_missing(args) == falsy(args.api_key)

\* --no-cache ignored
scan_get_all_flags_always_cached(args, response, clock, dir, fs) ==
    get_all_flags(args.project, TRUE, args.override_cache, args.cache_ttl, response, clock, dir, fs)

scan_get_all_flags(args, response, clock, dir, fs) ==
    get_all_flags(args.project, ~args.no_cache, args.override_cache, args.cache_ttl, response, clock, dir, fs)

scan_classify(args, flags, maintainer_list, exclude_list, clock) ==
    get_inactive_flags(flags, args.months, maintainer_list, exclude_list, clock)

scan_search(args, flag_keys, ext_list) ==
    search_directory(args.directory, flag_keys, ext_list, args.max_file_size)

\* the lines printed before the fetch (cli.py 224-237)
scan_banner(ext_list, exclude_list) ==
    <<console_print("Scanning directory"),
      IF ext_list # None THEN console_print("File extensions")
      ELSE console_print("Scanning all file types")>>
    \o (IF exclude_list # None THEN <<console_print("Excluding flags")>>
        ELSE <<>>)

print_locations(locs) ==
    [i \in 1..Len(locs) |->
        [ev |-> "print_location", file_path |-> locs[i].file_path,
         line_number |-> locs[i].line_number]]

\* for flag, locations in flags_found: ...   (flag.maintainer.first_name
\* raises AttributeError when the maintainer is None)
RECURSIVE scan_report(_, _)
scan_report(flags_found, t) ==
    IF flags_found = <<>> THEN [trace |-> t, exit_code |-> 0]
    ELSE LET flag == Head(flags_found).flag
             head == t \o <<[ev |-> "print_flag", key |-> flag.key]>>
         IN  IF flag.maintainer = None
             THEN [trace |-> head \o <<Unhandled("AttributeError")>>,
                   exit_code |-> 1]
             ELSE scan_report(
                      Tail(flags_found),
                      head
                      \o <<[ev |-> "print_maintainer",
                            first_name |-> The(flag.maintainer).first_name],
                           [ev |-> "print_created",
                            ms |-> flag.creation_date * MsPerTick],
                           console_print("URL"),
                           console_print("Locations:")>>
                      \o print_locations(Head(flags_found).locations))

scan_render(args, got, ext_list, maintainer_list, exclude_list, clock, t) ==
    LET inactive_flags ==
            scan_classify(args, got.flags, maintainer_list, exclude_list, clock)
        flag_keys == [i \in 1..Len(inactive_flags) |-> inactive_flags[i].key]
        search_results == scan_search(args, flag_keys, ext_list)
        present(f) == f.key \in DOMAIN search_results
        in_codebase == SelectSeq(inactive_flags, present)
        flags_found == [i \in 1..Len(in_codebase) |->
                           [flag |-> in_codebase[i],
                            locations |-> search_results[in_codebase[i].key]]]
        searched == t
            \o <<[ev |-> "get_inactive_flags", flags |-> got.flags,
                  result |-> inactive_flags],
                 [ev |-> "print_checking", count |-> Len(flag_keys)],
                 [ev |-> "CodebaseScanner",
                  max_file_size_mb |-> args.max_file_size],
                 [ev |-> "search_directory", flag_keys |-> flag_keys,
                  result |-> search_results]>>
        report == scan_report(
                      flags_found,
                      searched \o <<[ev |-> "print_found",
                                     count |-> Len(flags_found)]>>)
    IN  IF flags_found = <<>>
        THEN Done(searched \o <<console_print("No inactive flags found in codebase")>>,
                  0, got.cache_dir, got.files, got.written)
        ELSE Done(report.trace, report.exit_code,
                  got.cache_dir, got.files, got.written)

scan_checked(args, response, clock, dir, fs, t) ==
    IF scan_key_missing(args)
    THEN CredentialError(t \o <<Ev("get_api_key")>>, dir, fs)
    ELSE LET ext_list == parse_comma_separated(args.ext)
             maintainer_list == parse_comma_separated(args.maintainer)
             exclude_list == parse_comma_separated(args.exclude)
             got == scan_get_all_flags(args, response, clock, dir, fs)
             called == t \o <<Ev("get_api_key")>> \o Client(args)
                       \o scan_banner(ext_list, exclude_list) \o got.trace
         IN  IF ~got.ok THEN Caught(called, got)
             ELSE scan_render(args, got, ext_list, maintainer_list,
                              exclude_list, clock, called)

\* the credential check moved above the directory check
scan_key_first(args, response, clock, dir, fs) ==
    IF scan_key_missing(args)
    THEN CredentialError(<<Ev("get_api_key")>>, dir, fs)
    ELSE IF scan_dir_invalid(args)
    THEN Done(<<Ev("get_api_key"), Ev("isdir"),
                console_print("Directory does not exist")>>, 1, dir, fs, None)
    ELSE scan_checked(args, response, clock, dir, fs, <<Ev("isdir")>>)

scan(args, response, clock, dir, fs) ==
    IF scan_dir_invalid(args)
    THEN Done(<<Ev("isdir"), console_print("Directory does not exist")>>,
              1, dir, fs, None)
    ELSE scan_checked(args, response, clock, dir, fs, <<Ev("isdir")>>)

(* ------------------------------ cache --------------------------------- *)
SecondsPerMinute == 60
MinutesPerHour == 60

\* int(x / 60) for x >= 0 and for x < 0: int() truncates towards zero
trunc_div(x, d) == IF x >= 0 THEN x \div d ELSE -((-x) \div d)

_format_time_duration(seconds) ==
    LET minutes == trunc_div(seconds, SecondsPerMinute)
    IN  IF minutes < MinutesPerHour THEN [n |-> minutes, unit |-> "m ago"]
        ELSE [n |-> trunc_div(minutes, MinutesPerHour), unit |-> "h ago"]

\* an entry exactly at its TTL still shown as live
_format_expiry_at_ttl_live(expires_seconds) ==
    IF expires_seconds < 0 THEN [n |-> 0, unit |-> "expired"]
    ELSE LET expires_minutes == trunc_div(expires_seconds, SecondsPerMinute)
         IN  IF expires_minutes < MinutesPerHour
             THEN [n |-> expires_minutes, unit |-> "in m"]
             ELSE [n |-> trunc_div(expires_minutes, MinutesPerHour),
                   unit |-> "in h"]

_format_expiry(expires_seconds) ==
    IF expires_seconds <= 0 THEN [n |-> 0, unit |-> "expired"]
    ELSE LET expires_minutes == trunc_div(expires_seconds, SecondsPerMinute)
         IN  IF expires_minutes < MinutesPerHour
             THEN [n |-> expires_minutes, unit |-> "in m"]
             ELSE [n |-> trunc_div(expires_minutes, MinutesPerHour),
                   unit |-> "in h"]

\* What a cache file can hold besides a well-formed entry ("object"):
\* nothing readable, text that is not JSON, JSON that is not an object (an
\* array), an object without "timestamp", an object whose "timestamp" is a
\* string.
DamageKinds ==
    {"unreadable", "notjson", "array", "no_timestamp", "text_timestamp"}

Row(row) == [raised |-> None, row |-> row]

Raised(type) == [raised |-> Some(type), row |-> None]

\* Row(None): the file cannot be read or is not JSON (OSError and
\* JSONDecodeError are caught); Row(Some(row)); Raised(type): an exception
\* the except clause does not name leaves the function
_get_cache_row_data(project, content, current_time, ttl_seconds) ==
    IF content.kind \in {"unreadable", "notjson"} THEN Row(None)
    ELSE IF content.kind = "array"
    THEN Raised("AttributeError")             \* cached.get on a list
    ELSE LET timestamp == IF content.kind = "no_timestamp" THEN 0
                          ELSE content.timestamp
             age_seconds == current_time - timestamp
             expires_seconds == ttl_seconds - age_seconds
         IN  IF content.kind = "text_timestamp"
             THEN Raised("TypeError")         \* fromtimestamp on a str
             ELSE Row(Some([project |-> project, cached |-> timestamp,
                            age |-> _format_time_duration(age_seconds),
                            expires |-> _format_expiry(expires_seconds)]))

\* sorted(cache_dir.glob("*.json"))
ProjectOrder == <<"p", "q">>

\* the loop over the cache files: the rows added to the table, and the
\* exception that ended the loop (None: it ran to its end)
RECURSIVE cache_rows(_, _, _, _, _)
cache_rows(names, fs, current_time, ttl_seconds, rows) ==
    IF names = <<>> THEN [raised |-> None, rows |-> rows]
    ELSE LET row_data == _get_cache_row_data(Head(names), The(fs[Head(names)]),
                                             current_time, ttl_seconds)
         IN  IF row_data.raised # None
             THEN [raised |-> row_data.raised, rows |-> rows]
             ELSE cache_rows(Tail(names), fs, current_time, ttl_seconds,
                             IF row_data.row # None
                             THEN Append(rows, The(row_data.row))
                             ELSE rows)

\* the table is printed after the loop: an exception in the loop leaves
\* nothing displayed
print_table(t, table, dir, fs) ==
    IF table.raised # None
    THEN Done(t \o <<Unhandled(The(table.raised))>>, 1, dir, fs, None)
    ELSE Done(t \o <<[ev |-> "print_table", rows |-> table.rows]>>, 0, dir, fs, None)

\* an empty cache reported as a failure
_display_cache_list_empty_fails(ttl_seconds, clock, dir, fs, t) ==
    LET exists(p) == fs[p] # None
        cache_files == SelectSeq(ProjectOrder, exists)
    IN  IF ~dir \/ cache_files = <<>>
        THEN Done(t \o <<console_print("No cached projects found")>>, 1, dir, fs, None)
        ELSE print_table(t, cache_rows(cache_files, fs, clock, ttl_seconds, <<>>),
                         dir, fs)

_display_cache_list(ttl_seconds, clock, dir, fs, t) ==
    LET exists(p) == fs[p] # None
        cache_files == SelectSeq(ProjectOrder, exists)
    IN  IF ~dir
        THEN Done(t \o <<console_print("No cache directory found")>>, 0, dir, fs, None)
        ELSE IF cache_files = <<>>
        THEN Done(t \o <<console_print("No cached projects found")>>, 0, dir, fs, None)
        ELSE print_table(t, cache_rows(cache_files, fs, clock, ttl_seconds, <<>>),
                         dir, fs)

\* the action compared without regard to case
cache_cmd_any_case(args, clock, dir, fs) ==
    LET t == <<[ev |-> "SimpleCache", ttl_seconds |-> args.cache_ttl]>>
    IN  IF args.action \in {"clear", "Clear"}
        THEN Done(t \o <<Ev("clear_all"), console_print("Cache cleared")>>,
                  0, dir, clear_all(fs), None)
        ELSE IF args.action = "list"
        THEN _display_cache_list(args.cache_ttl, clock, dir, fs,
                                 t \o <<Ev("_display_cache_list")>>)
        ELSE Done(t \o <<console_print("Unknown action"),
                         console_print("Valid actions: clear, list")>>,
                  1, dir, fs, None)

\* `clear` that reports success and removes nothing
cache_cmd_clear_skipped(args, clock, dir, fs) ==
    LET t == <<[ev |-> "SimpleCache", ttl_seconds |-> args.cache_ttl]>>
    IN  IF args.action = "clear"
        THEN Done(t \o <<Ev("clear_all"), console_print("Cache cleared")>>,
                  0, dir, fs, None)
        ELSE IF args.action = "list"
        THEN _display_cache_list(args.cache_ttl, clock, dir, fs,
                                 t \o <<Ev("_display_cache_list")>>)
        ELSE Done(t \o <<console_print("Unknown action"),
                         console_print("Valid actions: clear, list")>>,
                  1, dir, fs, None)

cache_cmd(args, clock, dir, fs) ==
    LET t == <<[ev |-> "SimpleCache", ttl_seconds |-> args.cache_ttl]>>
    IN  IF args.action = "clear"
        THEN Done(t \o <<Ev("clear_all"), console_print("Cache cleared")>>,
                  0, dir, clear_all(fs), None)
        ELSE IF args.action = "list"
        THEN _display_cache_list(args.cache_ttl, clock, dir, fs,
                                 t \o <<Ev("_display_cache_list")>>)
        ELSE Done(t \o <<console_print("Unknown action"),
                         console_print("Valid actions: clear, list")>>,
                  1, dir, fs, None)

(***************************************************************************)
(* What the user can type and what the remote service can answer.          *)
(***************************************************************************)
MaxMonths == 2        \* --months ranges over 1..MaxMonths

NoInv == [cmd |-> "none"]

Args(cmd, api_key, directory, project, months, cache_ttl, filters, no_cache, override_cache) ==
    [cmd |-> cmd, api_key |-> api_key, directory |-> directory,
     project |-> project, months |-> months, cache_ttl |-> cache_ttl,
     max_file_size |-> 5, ext |-> filters.ext,
     maintainer |-> filters.maintainer, exclude |-> filters.exclude,
     no_cache |-> no_cache, override_cache |-> override_cache,
     action |-> ""]

CacheArgs(action, cache_ttl) ==
    [cmd |-> "cache", action |-> action, cache_ttl |-> cache_ttl]

NoFilters == [ext |-> None, maintainer |-> None, exclude |-> None]

ApiKeys == {None, Some(""), Some("key")}

\* an invocation stopped by its credential check: the other options are
\* never read, so they stay at one value
Keyless(cmd, directory) ==
    {Args(cmd, k, directory, "p", 1, 1, NoFilters, FALSE, FALSE) :
        k \in {None, Some("")}}

Keyed(cmd, Directories, Months, Filters) ==
    {Args(cmd, Some("key"), d, p, m, ttl, f, nc, oc) :
        d \in Directories, p \in Projects, m \in Months, ttl \in 1..MaxTTL,
        f \in Filters, nc \in BOOLEAN, oc \in BOOLEAN}

MainFilters ==
    {NoFilters,
     [ext |-> None, maintainer |-> None, exclude |-> Some(<< <<"f">> >>)]}

ListArgs == Keyless("list", "repo") \cup Keyed("list", {"repo"}, {1}, MainFilters)

InactiveArgs ==
    Keyless("inactive", "repo") \cup Keyed("inactive", {"repo"}, {1}, MainFilters)

ScanArgs ==
    Keyless("scan", "repo")
    \cup {Args("scan", k, "missing", "p", 1, 1, NoFilters, FALSE, FALSE) :
             k \in ApiKeys}
    \cup Keyed("scan", {"repo", "legacy", "clean"}, {1}, MainFilters)

CacheActions == {"clear", "list", "Clear", "purge", ""}

CacheCmdArgs == {CacheArgs(a, ttl) : a \in CacheActions, ttl \in 1..MaxTTL}

J == <<"J">>
K == <<"K">>

ItemsA1 == <<Item(<<"f">>, TRUE, Some(J), 10, <<Env("production", Some(20))>>)>>
ItemsA2 == <<Item(<<"f", "g">>, TRUE, None, 30, <<>>)>>
ItemsB ==
    <<Item(<<"h">>, FALSE, Some(K), 10, <<>>),
      Item(<<"f">>, TRUE, Some(J), 10,
           <<Env("production", Some(99)), Env("test", None)>>)>>

MainResponses ==
    {Response(<<ItemsA1, ItemsA2>>, 0, None),
     Response(<<ItemsB>>, 0, None),
     Response(<< <<>> >>, 0, None),
     Response(<<ItemsA1, ItemsA2>>, 1, Some(401)),
     Response(<<ItemsA1, ItemsA2>>, 2, Some(404)),
     Response(<<ItemsA1, ItemsA2>>, 2, Some(500)),
     Response(<<ItemsA1, ItemsA2>>, 1, None)}

(***************************************************************************)
(* The state machine.                                                      *)
(***************************************************************************)
Init ==
    /\ now = Epoch
    /\ cache_dir = FALSE
    /\ files = [p \in Projects |-> None]
    /\ inv = NoInv
    /\ trace = <<>>
    /\ exit_code = 0
    /\ stored = [p \in Projects |-> None]

Idle == inv = NoInv

\* the state an invocation leaves behind
Finish(args, o) ==
    /\ inv' = args
    /\ trace' = o.trace
    /\ exit_code' = o.exit_code
    /\ cache_dir' = o.cache_dir
    /\ files' = o.files
    /\ stored' = [p \in Projects |->
                     IF o.files[p] = None THEN None
                     ELSE IF o.written # None /\ p = args.project
                          THEN o.written
                          ELSE stored[p]]
    /\ now' = now

ListCmd(ArgSet, Responses) ==
    /\ Idle
    /\ \E args \in ArgSet, response \in Responses :
          Finish(args, list_flags(args, response, now, cache_dir, files))

InactiveCmd(ArgSet, Responses) ==
    /\ Idle
    /\ \E args \in ArgSet, response \in Responses :
          Finish(args, inactive(args, response, now, cache_dir, files))

ScanCmd(ArgSet, Responses) ==
    /\ Idle
    /\ \E args \in ArgSet, response \in Responses :
          Finish(args, scan(args, response, now, cache_dir, files))

CacheCmd(ArgSet) ==
    /\ Idle
    /\ \E args \in ArgSet :
          Finish(args, cache_cmd(args, now, cache_dir, files))

\* the process has exited; the shell is back at its prompt
Return ==
    /\ ~Idle
    /\ inv' = NoInv
    /\ trace' = <<>>
    /\ exit_code' = 0
    /\ UNCHANGED <<now, cache_dir, files, stored>>

Tick ==
    /\ Idle
    /\ now < Epoch + MaxTicks
    /\ now' = now + 1
    /\ UNCHANGED <<cache_dir, files, inv, trace, exit_code, stored>>

\* a cache file is damaged from outside the program
Damage(Kinds) ==
    /\ Idle
    /\ \E p \in Projects, kind \in Kinds :
          /\ files[p] # None
          /\ files[p] # Some(Damaged(kind))
          /\ files' = [files EXCEPT ![p] = Some(Damaged(kind))]
          /\ stored' = [stored EXCEPT ![p] = None]
    /\ UNCHANGED <<now, cache_dir, inv, trace, exit_code>>

Next ==
    \/ ListCmd(ListArgs, MainResponses)
    \/ InactiveCmd(InactiveArgs, MainResponses)
    \/ ScanCmd(ScanArgs, MainResponses)
    \/ CacheCmd(CacheCmdArgs)
    \/ Return
    \/ Tick
    \/ Damage({"notjson"})

Spec == Init /\ [][Next]_vars

(***************************************************************************)
(* The classification on its own: every invocation runs with --no-cache,   *)
(* the remote service answers with one page, and the flags, the filters    *)
(* and --months range widely around the inactivity threshold.              *)
(***************************************************************************)
ClassifyFilters ==
    {[ext |-> None, maintainer |-> m, exclude |-> x] :
        m \in {None, Some(<<J>>), Some(<< <<"J", ",", " ", "K">> >>)},
        x \in {None, Some(<< <<"f">> >>)}}

ClassifyArgs(cmd) ==
    {Args(cmd, Some("key"), "repo", "p", m, 1, f, TRUE, FALSE) :
        m \in 1..MaxMonths, f \in ClassifyFilters}

\* clock readings at, just before and just after the one-month threshold of
\* the first invocation, and one two months back
Month == DaysPerMonth * TicksPerDay
Stamps == {Epoch - Month - 1, Epoch - Month, Epoch - Month + 1, Epoch - 2 * Month}

ClassifyEnvs ==
    {<<>>, <<Env("production", None)>>}
    \cup {<<Env("production", Some(s))>> : s \in Stamps}
    \cup {<<Env("production", Some(Epoch - Month - 1)), Env("test", Some(Epoch))>>,
          <<Env("production", Some(Epoch)), Env("test", Some(Epoch - Month - 1))>>,
          <<Env("production", None), Env("test", Some(Epoch - Month - 1))>>}

ClassifyItems ==
    {Item(<<"f">>, t, m, c, e) :
        t \in BOOLEAN, m \in {None, Some(J), Some(K)},
        c \in {Epoch - Month - 1, Epoch - Month}, e \in ClassifyEnvs}

BaseItem == Item(<<"h">>, TRUE, Some(K), Epoch - 2 * Month - 1, <<>>)

ClassifyResponses ==
    {Response(<<items>>, 0, None) :
        items \in {<<x>> : x \in ClassifyItems}
                  \cup {<<BaseItem, x>> : x \in ClassifyItems}
                  \cup {<<x, BaseItem>> : x \in ClassifyItems}}

NextClassify ==
    \/ InactiveCmd(ClassifyArgs("inactive"), ClassifyResponses)
    \/ ScanCmd(ClassifyArgs("scan"), ClassifyResponses)
    \/ Return
    \/ Tick

SpecClassify == Init /\ [][NextClassify]_vars

(***************************************************************************)
(* The cache on its own: `list` fills it, the clock moves, files are       *)
(* damaged from outside in every way, and `cache` lists or clears it.      *)
(***************************************************************************)
FillArgs ==
    {Args("list", Some("key"), "repo", p, 1, ttl, NoFilters, FALSE, oc) :
        p \in Projects, ttl \in 1..MaxTTL, oc \in BOOLEAN}

FillResponses ==
    {Response(<<ItemsB>>, 0, None), Response(<<ItemsB>>, 1, Some(500))}

CacheListArgs == {CacheArgs(a, ttl) : a \in {"list", "clear"}, ttl \in 1..MaxTTL}

NextCache ==
    \/ ListCmd(FillArgs, FillResponses)
    \/ CacheCmd(CacheListArgs)
    \/ Return
    \/ Tick
    \/ Damage(DamageKinds)

SpecCache == Init /\ [][NextCache]_vars

(***************************************************************************)
(* parse_comma_separated on its own: the values of a repeatable option are *)
(* any short list of strings, every short string over a letter, the comma  *)
(* and the blank and a few longer ones; the function is applied to them,   *)
(* and once more to its own result.                                        *)
(***************************************************************************)
MaxLen == 2           \* characters in one option value drawn from Alphabet
MaxValues == 2        \* times the option is given

Alphabet == {"a", ",", " "}

\* longer values, with a second name and a blank inside a token
LongValues ==
    {<<"a", ",", " ", "b">>,
     <<" ", "a", " ", "b", ",">>,
     <<",", "b", " ", ",", ",", "a">>}

OptionStrings == UNION {[1..n -> Alphabet] : n \in 0..MaxLen} \cup LongValues

OptionValues ==
    {None} \cup {Some(l) : l \in UNION {[1..n -> OptionStrings] : n \in 0..MaxValues}}

Parsed(values, again) ==
    /\ inv' = [cmd |-> "parse", values |-> values, again |-> again]
    /\ trace' = <<[ev |-> "parse_comma_separated", values |-> values,
                   result |-> parse_comma_separated(values)]>>
    /\ UNCHANGED <<now, cache_dir, files, exit_code, stored>>

Parse ==
    /\ Idle
    /\ \E values \in OptionValues : Parsed(values, FALSE)

\* the result given back to the function
Reparse ==
    /\ inv.cmd = "parse"
    /\ ~inv.again
    /\ trace[1].result # None
    /\ Parsed(trace[1].result, TRUE)

NextParse ==
    \/ Parse
    \/ Reparse
    \/ Return

SpecParse == Init /\ [][NextParse]_vars

(***************************************************************************)
(* Properties.                                                             *)
(***************************************************************************)
FetchCmds == {"list", "inactive", "scan"}

Did(t, name) == \E i \in 1..Len(t) : t[i].ev = name

Printed(t, text) == \E i \in 1..Len(t) : t[i].ev = "print" /\ t[i].text = text

\* the invocation got past its directory and credential checks
Passed(a) ==
    /\ a.cmd \in FetchCmds
    /\ ~falsy(a.api_key)
    /\ a.cmd = "scan" => isdir(a.directory)

\* what get_all_flags does, and what a command does with the flags
ApiEvents == {"get_all_flags", "cache_get", "http_get", "cache_set",
              "LaunchDarklyAPIError"}

WorkEvents == {"apply_common_filters", "get_inactive_flags", "search_directory",
               "CodebaseScanner", "create_flags_table", "print_summary",
               "print_total", "print_checking", "print_found", "print_flag",
               "print_maintainer", "print_created", "print_location"}

NoClient(t) ==
    \A i \in 1..Len(t) :
        t[i].ev \notin (ApiEvents \cup WorkEvents \cup {"SimpleCache", "LaunchDarklyClient"})

KeyAbsent(a) == a.cmd \in FetchCmds /\ falsy(a.api_key)

\* C1 as stated: with the API key absent, list, inactive and scan print the
\* credential error and exit with code 1 without constructing the client,
\* calling get_all_flags or touching the cache.
C1_CredentialErrorAlways ==
    [][KeyAbsent(inv') =>
          /\ Printed(trace', "LD_API_KEY not found")
          /\ exit_code' = 1
          /\ NoClient(trace')
          /\ files' = files /\ cache_dir' = cache_dir]_vars

\* C1 amended: with the API key absent, list, inactive and scan exit with
\* code 1 without constructing the client, calling get_all_flags or touching
\* the cache; they print the credential error, except that scan given a
\* --dir that is no directory prints the directory error instead.
C1_KeyAbsentExits ==
    [][KeyAbsent(inv') =>
          /\ exit_code' = 1
          /\ NoClient(trace')
          /\ files' = files /\ cache_dir' = cache_dir
          /\ IF inv'.cmd = "scan" /\ ~isdir(inv'.directory)
             THEN Printed(trace', "Directory does not exist")
                  /\ ~Printed(trace', "LD_API_KEY not found")
             ELSE Printed(trace', "LD_API_KEY not found")]_vars

C1_Witness ==
    /\ inv.cmd = "scan" /\ inv.api_key = Some("") /\ isdir(inv.directory)
    /\ Printed(trace, "LD_API_KEY not found")
    /\ exit_code = 1
    /\ files["p"] # None

\* C2: scan given a --dir that is no directory exits with code 1 before the
\* credential check and before any call of get_all_flags, get_inactive_flags
\* or search_directory, whether or not an API key is set.
C2_InvalidDirectoryFirst ==
    (inv.cmd = "scan" /\ ~isdir(inv.directory)) =>
        /\ exit_code = 1
        /\ trace[1].ev = "isdir"
        /\ ~Did(trace, "get_api_key")
        /\ NoClient(trace)

C2_Witness ==
    /\ inv.cmd = "scan" /\ ~isdir(inv.directory) /\ inv.api_key = Some("key")
    /\ exit_code = 1
    /\ Printed(trace, "Directory does not exist")

\* C3: when get_all_flags raises the API error, with or without a status
\* code, list, inactive and scan exit with code 1, do no filtering,
\* classification, directory scan or table rendering afterwards, and the
\* error is handled, not left to crash the command.
C3_ApiErrorExits ==
    (inv.cmd \in FetchCmds /\ Did(trace, "LaunchDarklyAPIError")) =>
        /\ exit_code = 1
        /\ Did(trace, "handle_api_error")
        /\ ~Did(trace, "unhandled_exception")
        /\ \A i \in 1..Len(trace) : trace[i].ev \notin WorkEvents

C3_Witness ==
    /\ inv.cmd = "scan"
    /\ Did(trace, "LaunchDarklyAPIError")
    /\ \E i \in 1..Len(trace) :
          trace[i].ev = "handle_api_error" /\ trace[i].status_code = None
    /\ exit_code = 1

\* the invocation found nothing
NothingFound(a, t, dir, fs) ==
    \/ /\ a.cmd = "list"
       /\ \E i \in 1..Len(t) : t[i].ev = "apply_common_filters" /\ t[i].result = <<>>
    \/ /\ a.cmd = "inactive"
       /\ \E i \in 1..Len(t) : t[i].ev = "get_inactive_flags" /\ t[i].result = <<>>
    \/ /\ a.cmd = "scan"
       /\ \E i \in 1..Len(t) :
             /\ t[i].ev = "search_directory"
             /\ \A k \in 1..Len(t[i].flag_keys) :
                   t[i].flag_keys[k] \notin DOMAIN t[i].result
    \/ /\ a.cmd = "cache" /\ a.action = "list"
       /\ (~dir \/ \A p \in Projects : fs[p] = None)

\* C4: a command that succeeds but finds nothing exits with code 0: list
\* with an empty filtered list, inactive with no inactive flag, scan with no
\* inactive flag key in the codebase (also with no inactive flag at all),
\* cache list with no cache directory or no entry in it.
C4_NothingFoundExitsZero ==
    NothingFound(inv, trace, cache_dir, files) => exit_code = 0

C4_Witness ==
    /\ inv.cmd = "scan"
    /\ \E i \in 1..Len(trace) :
          /\ trace[i].ev = "search_directory"
          /\ trace[i].flag_keys # <<>>
          /\ DOMAIN trace[i].result = {}
    /\ exit_code = 0

\* C5: the cache command runs 'clear' and 'list' and nothing else: for any
\* other action it exits with code 1, clears nothing, lists nothing and
\* leaves the persisted cache entries as they were.
C5_UnknownCacheAction ==
    [][inv'.cmd = "cache" =>
          /\ inv'.action = "clear" <=> Did(trace', "clear_all")
          /\ inv'.action = "list" <=> Did(trace', "_display_cache_list")
          /\ inv'.action \notin {"clear", "list"} =>
                /\ exit_code' = 1
                /\ files' = files /\ cache_dir' = cache_dir]_vars

C5_Witness ==
    /\ inv.cmd = "cache" /\ inv.action = "Clear"
    /\ exit_code = 1
    /\ files["p"] # None /\ files["q"] # None

\* C6: an invocation of list, inactive or scan that passes its checks calls
\* get_all_flags exactly once, with enable_cache = not --no-cache and
\* force_refresh = --override-cache, and filters, classifies, scans and
\* renders only after that call has returned.
C6_OneFetchThenWork ==
    Passed(inv) =>
        /\ Cardinality({i \in 1..Len(trace) : trace[i].ev = "get_all_flags"}) = 1
        /\ \A i \in 1..Len(trace) :
              trace[i].ev = "get_all_flags" =>
                  /\ trace[i].enable_cache = ~inv.no_cache
                  /\ trace[i].force_refresh = inv.override_cache
        /\ \A i, j \in 1..Len(trace) :
              (trace[i].ev \in ApiEvents /\ trace[j].ev \in WorkEvents) => i < j

C6_Witness ==
    /\ inv.cmd = "list" /\ inv.no_cache /\ inv.override_cache
    /\ Did(trace, "http_get")
    /\ Did(trace, "create_flags_table")
    /\ exit_code = 0

\* the flags get_all_flags returned to the command
ReturnedFlags(t) ==
    LET i == CHOOSE k \in 1..Len(t) :
                 t[k].ev \in {"apply_common_filters", "get_inactive_flags"}
    IN  t[i].flags

Fetched(t) == Did(t, "http_get")

Failed(t) == Did(t, "LaunchDarklyAPIError")

\* the project's cache entry before the invocation
Missing(p) == ~cache_dir \/ files[p] = None
Corrupt(p) == ~Missing(p) /\ The(files[p]).kind # "object"
Fresh(p, ttl) ==
    ~Missing(p) /\ ~Corrupt(p) /\ now - The(files[p]).timestamp < ttl
Expired(p, ttl) ==
    ~Missing(p) /\ ~Corrupt(p) /\ now - The(files[p]).timestamp >= ttl

\* C7: over any sequence of invocations, one run with caching enabled and
\* without --override-cache makes no remote call when the cache holds an
\* entry of the project younger than the TTL, and works on the flag list
\* the most recent successful cached fetch stored; it calls the remote
\* service only when the entry is missing, expired or corrupt.
C7_FreshEntryServed ==
    [][(Passed(inv') /\ ~inv'.no_cache /\ ~inv'.override_cache) =>
          /\ Fresh(inv'.project, inv'.cache_ttl) =>
                /\ ~Fetched(trace')
                /\ stored[inv'.project] # None
                /\ ReturnedFlags(trace') = Flags(The(stored[inv'.project]))
          /\ Fetched(trace') =>
                \/ Missing(inv'.project)
                \/ Expired(inv'.project, inv'.cache_ttl)
                \/ Corrupt(inv'.project)]_vars

\* a hit on an entry an earlier invocation wrote, the clock having moved on
C7_Witness ==
    /\ inv.cmd = "inactive" /\ ~inv.no_cache /\ ~inv.override_cache
    /\ \E i \in 1..Len(trace) : trace[i].ev = "cache_get" /\ trace[i].hit
    /\ ~Fetched(trace)
    /\ The(files[inv.project]).timestamp < now
    /\ ReturnedFlags(trace) # <<>>

\* C8: with --override-cache the cache is never read and the remote fetch
\* always happens; what was fetched replaces the project's entry if and only
\* if caching is enabled.  So an invocation with --no-cache, alone or with
\* --override-cache, neither reads nor writes the cache and leaves every
\* entry unchanged.
C8_OverrideAndNoCache ==
    [][Passed(inv') =>
          /\ inv'.override_cache =>
                /\ ~Did(trace', "cache_get")
                /\ Fetched(trace')
                /\ (~Failed(trace') /\ ~inv'.no_cache) =>
                      /\ files'[inv'.project] # None
                      /\ The(files'[inv'.project]).kind = "object"
                      /\ The(files'[inv'.project]).timestamp = now
                      /\ Flags(The(files'[inv'.project]).data) = ReturnedFlags(trace')
                      /\ \A q \in Projects \ {inv'.project} : files'[q] = files[q]
          /\ inv'.no_cache =>
                /\ ~Did(trace', "cache_get")
                /\ ~Did(trace', "cache_set")
                /\ files' = files /\ cache_dir' = cache_dir]_vars

\* --no-cache with --override-cache: fetched, and the entry of an earlier
\* run is still the one on disk
C8_Witness ==
    /\ inv.cmd = "scan" /\ inv.no_cache /\ inv.override_cache
    /\ Fetched(trace) /\ ~Failed(trace)
    /\ files[inv.project] # None
    /\ The(files[inv.project]).kind = "object"
    /\ Flags(The(files[inv.project]).data) # ReturnedFlags(trace)

\* C9: a remote fetch that fails, on whichever page, writes nothing to the
\* cache: every entry stays as it was and the command exits with code 1.
\* The cache is written only after a fetch that succeeded on every page.
C9_FailedFetchWritesNothing ==
    [][inv'.cmd \in FetchCmds =>
          /\ Failed(trace') =>
                /\ files' = files /\ cache_dir' = cache_dir
                /\ ~Did(trace', "cache_set")
                /\ exit_code' = 1
          /\ (files' # files \/ Did(trace', "cache_set")) =>
                /\ Fetched(trace') /\ ~Failed(trace')
                /\ \A i, j \in 1..Len(trace') :
                      (trace'[i].ev = "http_get" /\ trace'[j].ev = "cache_set")
                          => i < j
                /\ Flags(The(files'[inv'.project]).data) = ReturnedFlags(trace')]_vars

\* the second page failed, with caching on, over an existing entry
C9_Witness ==
    /\ inv.cmd = "list" /\ ~inv.no_cache /\ inv.override_cache
    /\ Failed(trace)
    /\ \E i \in 1..Len(trace) : trace[i].ev = "http_get" /\ trace[i].page = 2
    /\ files[inv.project] # None /\ The(files[inv.project]).kind = "object"
    /\ exit_code = 1

\* the claim's own reading of the classification
PassesCommon(f, names, keys) ==
    /\ names # None =>
          /\ f.maintainer # None
          /\ \E n \in 1..Len(The(names)) :
                The(names)[n] = The(f.maintainer).first_name
    /\ keys # None => \A n \in 1..Len(The(keys)) : The(keys)[n] # f.key

Modified(f) ==
    {e.last_modified : e \in {f.environments[n] : n \in 1..Len(f.environments)}}
    \ {None}

OlderThan(f, threshold) ==
    IF Modified(f) = {} THEN f.creation_date < threshold
    ELSE \A m \in Modified(f) : The(m) < threshold

AtThreshold(f, threshold) ==
    IF Modified(f) = {} THEN f.creation_date = threshold
    ELSE /\ \E m \in Modified(f) : The(m) = threshold
         /\ \A m \in Modified(f) : The(m) <= threshold

\* C10: get_inactive_flags, as inactive and scan call it, returns in input
\* order exactly the flags that pass the common filters, are temporary, and
\* whose latest last_modified over the environments (the creation date when
\* no environment has one) is strictly older than now - months * 30 days; no
\* permanent flag and no flag exactly at the threshold is returned.
C10_InactiveSelection ==
    \A i \in 1..Len(trace) :
        (inv.cmd \in {"inactive", "scan"} /\ trace[i].ev = "get_inactive_flags") =>
            LET flags == trace[i].flags
                result == trace[i].result
                names == parse_comma_separated(inv.maintainer)
                keys == parse_comma_separated(inv.exclude)
                threshold == now - inv.months * DaysPerMonth * TicksPerDay
                chosen == {k \in 1..Len(flags) :
                              /\ PassesCommon(flags[k], names, keys)
                              /\ flags[k].temporary
                              /\ OlderThan(flags[k], threshold)}
            IN  /\ Len(result) = Cardinality(chosen)
                /\ \A k \in chosen :
                      result[Cardinality({j \in chosen : j <= k})] = flags[k]
                /\ \A r \in 1..Len(result) :
                      /\ result[r].temporary
                      /\ ~AtThreshold(result[r], threshold)

\* one flag returned, and beside it a temporary flag that passes the filters
\* and sits exactly at the threshold
C10_Witness ==
    /\ inv.cmd = "inactive" /\ inv.maintainer # None
    /\ \E i \in 1..Len(trace) :
          /\ trace[i].ev = "get_inactive_flags"
          /\ Len(trace[i].flags) = 2
          /\ Len(trace[i].result) = 1
          /\ \E k \in 1..2 :
                /\ trace[i].flags[k].temporary
                /\ PassesCommon(trace[i].flags[k],
                                parse_comma_separated(inv.maintainer),
                                parse_comma_separated(inv.exclude))
                /\ AtThreshold(trace[i].flags[k],
                               now - inv.months * DaysPerMonth * TicksPerDay)

\* the table `cache list` printed
Table(t) ==
    LET i == CHOOSE k \in 1..Len(t) : t[k].ev = "print_table" IN t[i].rows

Listing == inv.cmd = "cache" /\ inv.action = "list"

WellFormed(p) == files[p] # None /\ The(files[p]).kind = "object"

Shown(rows, p) == \E r \in 1..Len(rows) : rows[r].project = p

\* C11: cache list never aborts because of a bad entry: whatever a cache
\* file holds (unreadable, not JSON, JSON that is not an object, an object
\* whose timestamp is missing or not a number), that entry is skipped
\* silently, every well-formed entry is still displayed and the exit code
\* is 0.
C11_BadEntrySkipped ==
    (Listing /\ cache_dir /\ \E p \in Projects : files[p] # None) =>
        /\ exit_code = 0
        /\ ~Did(trace, "unhandled_exception")
        /\ Did(trace, "print_table")
        /\ \A p \in Projects : Shown(Table(trace), p) <=> WellFormed(p)

\* C12: for the same TTL and clock, cache list shows an entry as expired
\* exactly when get(project) would return absent because of the entry's age,
\* that is exactly when now - timestamp >= ttl_seconds; an entry with
\* now - timestamp < ttl_seconds is never shown as expired; listing deletes
\* and modifies no entry.
C12_ExpiredAsGet ==
    [][(inv'.cmd = "cache" /\ inv'.action = "list") =>
          /\ files' = files /\ cache_dir' = cache_dir
          /\ Did(trace', "print_table") =>
                \A r \in 1..Len(Table(trace')) :
                    LET row == Table(trace')[r]
                        p == row.project
                        ttl == inv'.cache_ttl
                        expired == row.expires.unit = "expired"
                    IN  WellFormed(p) =>
                          /\ expired <=> cache_get(cache_dir, files, p, now, ttl) = None
                          /\ expired <=> now - The(files[p]).timestamp >= ttl]_vars

\* two entries listed, one exactly at its TTL and shown as expired, the
\* other younger and shown as live
C12_Witness ==
    /\ Listing /\ Did(trace, "print_table")
    /\ \E r, l \in 1..Len(Table(trace)) :
          /\ WellFormed(Table(trace)[r].project)
          /\ now - The(files[Table(trace)[r].project]).timestamp = inv.cache_ttl
          /\ Table(trace)[r].expires.unit = "expired"
          /\ WellFormed(Table(trace)[l].project)
          /\ now - The(files[Table(trace)[l].project]).timestamp < inv.cache_ttl
          /\ Table(trace)[l].expires.unit # "expired"

NoEntry(fs) == \A p \in Projects : fs[p] = None

\* C13: cache clear always exits with code 0, whether or not the cache
\* directory exists, and leaves no entry of any project; the cache stays
\* empty until a fetching command runs, and the next list, inactive or scan
\* with caching enabled, for any project, fetches from the remote service.
C13_ClearThenFetch ==
    [][/\ (inv'.cmd = "cache" /\ inv'.action = "clear") =>
              /\ exit_code' = 0
              /\ Did(trace', "clear_all")
              /\ NoEntry(files')
       /\ (NoEntry(files) /\ inv'.cmd \notin FetchCmds) => NoEntry(files')
       /\ (NoEntry(files) /\ Passed(inv') /\ ~inv'.no_cache) =>
              Fetched(trace')]_vars

\* a clear that ran over an existing cache directory
C13_Witness ==
    /\ inv.cmd = "cache" /\ inv.action = "clear"
    /\ cache_dir
    /\ NoEntry(files)
    /\ exit_code = 0

\* C14: handle_api_error prints the 'check API key' guidance exactly when
\* the status is 401 and the 'check project name' guidance exactly when it
\* is 404; for every other status, and for a network error without status,
\* it prints the error message only; it always ends by raising exit code 1
\* and never returns normally.
C14_ErrorGuidance ==
    \A i \in 1..Len(trace) :
        trace[i].ev = "handle_api_error" =>
            LET status == trace[i].status_code
                printed == SubSeq(trace, i + 1, Len(trace))
            IN  /\ printed # <<>>
                /\ \A k \in 1..Len(printed) : printed[k].ev = "print"
                /\ printed[1].text = "Error: message"
                /\ Tail(printed) =
                      IF status = Some(401)
                      THEN <<console_print("Check your LD_API_KEY")>>
                      ELSE IF status = Some(404)
                           THEN <<console_print("Verify the project name")>>
                           ELSE <<>>
                /\ exit_code = 1
                /\ ~Did(trace, "unhandled_exception")

\* a 404 answered with the project-name guidance
C14_Witness ==
    /\ inv.cmd = "inactive"
    /\ \E i \in 1..Len(trace) :
          trace[i].ev = "handle_api_error" /\ trace[i].status_code = Some(404)
    /\ Printed(trace, "Verify the project name")
    /\ ~Printed(trace, "Check your LD_API_KEY")
    /\ exit_code = 1

\* the events of t named name, in order
Events(t, name) ==
    LET named(e) == e.ev = name IN SelectSeq(t, named)

\* scan found inactive flags in the codebase and began its report
Reporting == inv.cmd = "scan" /\ Did(trace, "print_found")

\* C15: scan completes its rendering and exits with code 0 for every
\* inactive flag found in the codebase, a flag without maintainer included:
\* an absent maintainer never makes the command crash.
C15_AbsentMaintainerRendered ==
    Reporting =>
        /\ exit_code = 0
        /\ ~Did(trace, "unhandled_exception")
        /\ Len(Events(trace, "print_flag")) = Events(trace, "print_found")[1].count

\* what scan prints for the flags found: per flag its key line, then one
\* line per location
RECURSIVE ExpectedReport(_, _)
ExpectedReport(found, result) ==
    IF found = <<>> THEN <<>>
    ELSE <<[ev |-> "print_flag", key |-> Head(found).key]>>
         \o print_locations(result[Head(found).key])
         \o ExpectedReport(Tail(found), result)

ReportLines(t) ==
    LET line(e) == e.ev \in {"print_flag", "print_location"} IN SelectSeq(t, line)

\* C16: in scan, search_directory is called with exactly the keys of the
\* flags get_inactive_flags returned, in that order; the flags reported are
\* exactly the inactive flags whose key is in the search result, each once,
\* in the order of the inactive-flag list, each with its locations printed
\* in the scanner's order.
C16_ReportMatchesSearch ==
    (inv.cmd = "scan" /\ Did(trace, "search_directory")) =>
        LET inactive_flags == Events(trace, "get_inactive_flags")[1].result
            search == Events(trace, "search_directory")[1]
            present(f) == f.key \in DOMAIN search.result
        IN  /\ Len(Events(trace, "search_directory")) = 1
            /\ search.flag_keys =
                  [i \in 1..Len(inactive_flags) |-> inactive_flags[i].key]
            /\ ReportLines(trace) =
                  ExpectedReport(SelectSeq(inactive_flags, present), search.result)

\* the same, for the runs whose found flags all have a maintainer
C16_WithMaintainers ==
    (inv.cmd = "scan" /\ Did(trace, "search_directory")) =>
        LET inactive_flags == Events(trace, "get_inactive_flags")[1].result
            search == Events(trace, "search_directory")[1]
            present(f) == f.key \in DOMAIN search.result
            found == SelectSeq(inactive_flags, present)
        IN  (\A i \in 1..Len(found) : found[i].maintainer # None) =>
                /\ search.flag_keys =
                      [i \in 1..Len(inactive_flags) |-> inactive_flags[i].key]
                /\ ReportLines(trace) = ExpectedReport(found, search.result)

\* the claim's own reading of the tokens: the value is read character by
\* character, a comma ends the current token, and a token is kept, cut
\* down to the span from its first to its last non-blank, if it has one
Trim(s) ==
    LET inked == {i \in 1..Len(s) : s[i] # " "}
    IN  IF inked = {} THEN <<>>
        ELSE SubSeq(s, CHOOSE i \in inked : \A j \in inked : i <= j,
                       CHOOSE i \in inked : \A j \in inked : i >= j)

Emit(out, cur) == IF Trim(cur) = <<>> THEN out ELSE Append(out, Trim(cur))

RECURSIVE Scan(_, _, _)
Scan(s, cur, out) ==
    IF s = <<>> THEN Emit(out, cur)
    ELSE IF Head(s) = "," THEN Scan(Tail(s), <<>>, Emit(out, cur))
    ELSE Scan(Tail(s), Append(cur, Head(s)), out)

RECURSIVE AllTokens(_)
AllTokens(values) ==
    IF values = <<>> THEN <<>>
    ELSE Scan(Head(values), <<>>, <<>>) \o AllTokens(Tail(values))

\* ",".join(values)
RECURSIVE Joined(_)
Joined(values) ==
    IF Len(values) = 1 THEN Head(values)
    ELSE Head(values) \o <<",">> \o Joined(Tail(values))

\* C17: parse_comma_separated returns, for every list of option values, the
\* comma-split tokens of all values in their order, blanks stripped and
\* empty tokens dropped, so that repeating the option and joining the values
\* with commas give the same result; it returns None, never an empty list,
\* exactly when there is no non-empty token; applied to its own non-None
\* result it returns that result unchanged.
C17_ParseCommaSeparated ==
    inv.cmd = "parse" =>
        LET values == trace[1].values
            result == trace[1].result
            tokens == IF values = None THEN <<>> ELSE AllTokens(The(values))
        IN  /\ result # Some(<<>>)
            /\ result = None <=> tokens = <<>>
            /\ result # None => The(result) = tokens
            /\ (values # None /\ The(values) # <<>>) =>
                  result = parse_comma_separated(Some(<<Joined(The(values))>>))
            /\ result # None => parse_comma_separated(result) = result
            /\ inv.again => result = values

\* a result of three tokens, one with a blank inside, that came from an
\* option given twice and was given back to the function
C17_Witness ==
    /\ inv.cmd = "parse" /\ inv.again
    /\ trace[1].values = trace[1].result
    /\ trace[1].result = Some(<< <<"a">>, <<"b">>, <<"a", " ", "b">> >>)

====
